---- MODULE Spec2Model ----
(***************************************************************************)
(* Model of the LoRa P2P link core of WisBlock-API (src/src/lora.cpp):     *)
(* init_lora, send_lora_packet and the six radio callbacks on_tx_done,     *)
(* on_rx_done, on_tx_timeout, on_rx_timeout, on_rx_crc_error, on_cad_done. *)
(* Each function is one action; the calls it makes on the radio, the LED   *)
(* and the task semaphore are recorded, in order, in `calls`.  A second    *)
(* specification, SpecTask, runs the three handlers that notify the task   *)
(* statement by statement, interleaved with the task that consumes the     *)
(* event flags.                                                            *)
(***************************************************************************)
EXTENDS Integers, Sequences, FiniteSets

VARIABLES
    g_lorawan_initialized, \* bool set at the end of init_lora
    g_lorawan_settings,    \* P2P settings read by init_lora / send_lora_packet
    RadioEvents,           \* callback table handed to Radio.Init
    bringUps,              \* successful lora_rak4630_init calls so far
    radioInits,            \* Radio.Init(&RadioEvents) calls so far
    radioMode,             \* mode last commanded on the radio
    radioChannel,          \* last Radio.SetChannel argument
    radioTxConfig,         \* last Radio.SetTxConfig arguments
    radioRxConfig,         \* last Radio.SetRxConfig arguments
    radioCadParams,        \* last Radio.SetCadParams arguments
    timerRunning,          \* g_task_wakeup_timer started
    led,                   \* LED_BUILTIN level
    g_tx_lora_data,        \* transmit buffer
    g_tx_data_len,         \* transmit length
    g_rx_lora_data,        \* receive buffer
    g_rx_data_len,         \* receive length
    g_last_rssi,
    g_last_snr,
    g_task_event_type,     \* event flag word, as the set of its set bits
    g_rx_fin_result,       \* result of the last finished transmission
    g_task_sem,            \* "NULL" or the handle of the task semaphore
    semCount,              \* count of the binary semaphore
    op,                    \* the function that ran last, its arguments, the LinkState it ran in
    ret,                   \* its return value
    calls,                 \* the calls it made, in order
    running,               \* the handler the radio driver is in, and the statement it is at
    consumer,              \* the task that waits on g_task_sem: position and flags read
    lastTxOutcome          \* how the transmission that ended last ended

vars == <<g_lorawan_initialized, g_lorawan_settings, RadioEvents, bringUps, radioInits,
          radioMode, radioChannel, radioTxConfig, radioRxConfig, radioCadParams,
          timerRunning, led, g_tx_lora_data, g_tx_data_len, g_rx_lora_data,
          g_rx_data_len, g_last_rssi, g_last_snr, g_task_event_type, g_rx_fin_result,
          g_task_sem, semCount, op, ret, calls, running, consumer, lastTxOutcome>>

radioVars == <<radioMode, radioChannel, radioTxConfig, radioRxConfig, radioCadParams>>
initVars == <<g_lorawan_initialized, RadioEvents, bringUps, radioInits, timerRunning>>
txFrame == <<g_tx_lora_data, g_tx_data_len>>
rxFrame == <<g_rx_lora_data, g_rx_data_len, g_last_rssi, g_last_snr>>
eventVars == <<g_task_event_type, g_rx_fin_result, semCount>>
taskVars == <<running, consumer, lastTxOutcome>>
\* what no callback writes
cbFrame == <<initVars, g_lorawan_settings, radioChannel, radioTxConfig, radioRxConfig,
             radioCadParams, led, g_task_sem>>

----------------------------------------------------------------------------
(* Sizes and input sets *)

\* capacity of g_tx_lora_data / g_rx_lora_data, and the limit send_lora_packet tests
BufCap == 256
\* width of the uint8_t size parameter of send_lora_packet
SizeBits == 8
\* timeout handed to Radio.SetTxConfig
TxTimeoutMs == 5000

\* small payload lengths tried next to the ones around the capacity
MaxSmallLen == 1
\* number of distinct payload contents
NumPatterns == 2

\* lengths a caller passes to send_lora_packet: small ones, the capacity, one more
TxLens == (0..MaxSmallLen) \cup {BufCap, BufCap + 1}
\* sizes the driver reports to on_rx_done
RxSizes == 0..MaxSmallLen
Patterns == 1..NumPatterns
\* signal strength and signal-to-noise ratio of the frame with content p
Rssi(p) == -120 + 30 * p
Snr(p) == 9 - 8 * p

\* byte i of the payload with content p: never 0, different for different p
PayloadByte(p, i) == ((p * 64 + i) % 255) + 1
Payload(p, n) == [i \in 0..(n - 1) |-> PayloadByte(p, i)]

SettingsSet ==
    { [p2p_frequency |-> 915000000, p2p_tx_power |-> 22, p2p_bandwidth |-> 0,
       p2p_sf |-> 7, p2p_cr |-> 1, p2p_preamble_len |-> 8, p2p_symbol_timeout |-> 0,
       send_repeat_time |-> 0],
      [p2p_frequency |-> 868000000, p2p_tx_power |-> 14, p2p_bandwidth |-> 1,
       p2p_sf |-> 12, p2p_cr |-> 2, p2p_preamble_len |-> 10, p2p_symbol_timeout |-> 5,
       send_repeat_time |-> 10000] }

Handlers == [TxDone |-> "on_tx_done", RxDone |-> "on_rx_done", TxTimeout |-> "on_tx_timeout",
             RxTimeout |-> "on_rx_timeout", RxError |-> "on_rx_crc_error",
             CadDone |-> "on_cad_done"]
\* the table before init_lora fills it
NoHandlers == [cb \in DOMAIN Handlers |-> "NULL"]

----------------------------------------------------------------------------
(* Helpers *)

Call(fn, args) == [fn |-> fn, args |-> args]

\* names of the functions called, in order
RECURSIVE Fns(_)
Fns(cs) == IF cs = <<>> THEN <<>> ELSE <<Head(cs).fn>> \o Fns(Tail(cs))

\* number of calls of fn in cs
RECURSIVE Count(_, _)
Count(cs, fn) ==
    IF cs = <<>> THEN 0
    ELSE (IF Head(cs).fn = fn THEN 1 ELSE 0) + Count(Tail(cs), fn)

\* the first n bytes of a buffer, as a payload
Prefix(buf, n) == [i \in 0..(n - 1) |-> buf[i]]

\* conversion of the caller's length to the uint8_t parameter
ToUint8(n) == n % (2 ^ SizeBits)

\* memcpy that stops one byte short
memcpy_m(dst, src, n) == [i \in DOMAIN dst |-> IF i < n - 1 THEN src[i] ELSE dst[i]]

\* memcpy(dst, src, n)
memcpy(dst, src, n) == [i \in DOMAIN dst |-> IF i < n THEN src[i] ELSE dst[i]]

\* the state of the link, read off the initialized flag and the mode the radio
\* was last put in: Rx(0) listens, StartCad senses, Send transmits
LinkState ==
    IF ~g_lorawan_initialized THEN "Uninitialized"
    ELSE CASE radioMode = "RX" -> "Listening"
           [] radioMode = "CAD" -> "Sensing"
           [] radioMode = "TX" -> "Transmitting"
           [] OTHER -> "Idle"

\* if (g_task_sem != NULL) xSemaphoreGive(g_task_sem);
GiveCalls(sem) == IF sem # "NULL" THEN <<Call("xSemaphoreGive", <<sem>>)>> ELSE <<>>
GiveCount(sem, cnt) == IF sem # "NULL" THEN 1 ELSE cnt

\* CAD parameters with the detection threshold off by one
CadParams_m(sf) == <<"LORA_CAD_08_SYMBOL", sf + 12, 10, "LORA_CAD_ONLY", 0>>

\* arguments of Radio.SetCadParams in send_lora_packet
CadParams(sf) == <<"LORA_CAD_08_SYMBOL", sf + 13, 10, "LORA_CAD_ONLY", 0>>

\* Radio.Send handed the whole buffer instead of the stored length
SendArgs_m(buf, len) == <<Prefix(buf, BufCap), BufCap>>

\* arguments of Radio.Send in on_cad_done: the bytes the radio reads and their number
SendArgs(buf, len) == <<Prefix(buf, len), len>>

----------------------------------------------------------------------------
\* no handler is running
NoCallback == [name |-> "none", step |-> 0, args |-> <<>>]

Init ==
    /\ g_lorawan_initialized = FALSE
    /\ g_lorawan_settings \in SettingsSet
    /\ RadioEvents = NoHandlers
    /\ bringUps = 0
    /\ radioInits = 0
    /\ radioMode = "NONE"
    /\ radioChannel = 0
    /\ radioTxConfig = <<>>
    /\ radioRxConfig = <<>>
    /\ radioCadParams = <<>>
    /\ timerRunning = FALSE
    /\ led = "LOW"
    /\ g_tx_lora_data = [i \in 0..(BufCap - 1) |-> 0]
    /\ g_tx_data_len = 0
    /\ g_rx_lora_data = [i \in 0..(BufCap - 1) |-> 0]
    /\ g_rx_data_len = 0
    /\ g_last_rssi = 0
    /\ g_last_snr = 0
    /\ g_task_event_type = {}
    /\ g_rx_fin_result = FALSE
    /\ g_task_sem \in {"NULL", "sem"}
    /\ semCount = 0
    /\ op = [name |-> "boot"]
    /\ ret = "void"
    /\ calls = <<>>
    /\ running = NoCallback
    /\ consumer = [pc |-> "wait", flags |-> {}]
    /\ lastTxOutcome = "none"

\* bool send_lora_packet(uint8_t *data, uint8_t size), called with a payload of
\* content p and length n
send_lora_packet(p, n) ==
    LET size == ToUint8(n)
        data == Payload(p, n)
    IN  /\ op' = [name |-> "send_lora_packet", pre |-> LinkState, p |-> p, n |-> n]
        /\ IF size > BufCap
           THEN /\ ret' = FALSE
                /\ calls' = <<>>
                /\ UNCHANGED <<txFrame, radioVars, led>>
           ELSE /\ g_tx_data_len' = size
                /\ g_tx_lora_data' = memcpy(g_tx_lora_data, data, size)
                /\ radioCadParams' = CadParams(g_lorawan_settings.p2p_sf)
                /\ led' = "HIGH"
                /\ radioMode' = "CAD"
                /\ calls' = << Call("Radio.Sleep", <<>>),
                               Call("Radio.SetCadParams", CadParams(g_lorawan_settings.p2p_sf)),
                               Call("digitalWrite", <<"LED_BUILTIN", "HIGH">>),
                               Call("Radio.StartCad", <<>>) >>
                /\ ret' = TRUE
                /\ UNCHANGED <<radioChannel, radioTxConfig, radioRxConfig>>
        /\ UNCHANGED <<initVars, g_lorawan_settings, rxFrame, eventVars, g_task_sem>>

\* arguments of Radio.SetTxConfig / Radio.SetRxConfig in init_lora
TxConfig(st) ==
    <<"MODEM_LORA", st.p2p_tx_power, 0, st.p2p_bandwidth, st.p2p_sf, st.p2p_cr,
      st.p2p_preamble_len, FALSE, TRUE, 0, 0, FALSE, TxTimeoutMs>>
RxConfig(st) ==
    <<"MODEM_LORA", st.p2p_bandwidth, st.p2p_sf, st.p2p_cr, 0, st.p2p_preamble_len,
      st.p2p_symbol_timeout, FALSE, 0, TRUE, 0, 0, FALSE, TRUE>>

\* the calls of init_lora from Radio.Sleep on
ConfigCalls(st) ==
    << Call("Radio.Sleep", <<>>),
       Call("Radio.SetChannel", <<st.p2p_frequency>>),
       Call("Radio.SetTxConfig", TxConfig(st)),
       Call("Radio.SetRxConfig", RxConfig(st)) >>
    \o (IF st.send_repeat_time # 0
        THEN << Call("g_task_wakeup_timer.begin", <<st.send_repeat_time, "periodic_wakeup">>),
                Call("g_task_wakeup_timer.start", <<>>) >>
        ELSE <<>>)
    \o << Call("Radio.Rx", <<0>>),
          Call("digitalWrite", <<"LED_BUILTIN", "LOW">>) >>

\* init_lora without the test of g_lorawan_initialized: every call brings the
\* hardware up and registers the callbacks again
init_lora_again(hwOk) ==
    LET first == TRUE
        st == g_lorawan_settings
    IN  /\ op' = [name |-> "init_lora", first |-> ~g_lorawan_initialized, hwOk |-> hwOk]
        /\ IF first /\ ~hwOk
           THEN /\ ret' = -1
                /\ calls' = <<Call("lora_rak4630_init", <<>>)>>
                /\ UNCHANGED <<initVars, radioVars, led>>
           ELSE /\ RadioEvents' = Handlers
                /\ bringUps' = bringUps + 1
                /\ radioInits' = radioInits + 1
                /\ radioChannel' = st.p2p_frequency
                /\ radioTxConfig' = TxConfig(st)
                /\ radioRxConfig' = RxConfig(st)
                /\ timerRunning' = IF st.send_repeat_time # 0 THEN TRUE ELSE timerRunning
                /\ radioMode' = "RX"
                /\ led' = "LOW"
                /\ g_lorawan_initialized' = TRUE
                /\ calls' = << Call("lora_rak4630_init", <<>>),
                               Call("Radio.Init", <<"RadioEvents">>) >>
                            \o ConfigCalls(st)
                /\ ret' = 0
                /\ UNCHANGED radioCadParams
        /\ bringUps < 3
        /\ UNCHANGED <<g_lorawan_settings, txFrame, rxFrame, eventVars, g_task_sem>>

\* init_lora that goes on after a failed lora_rak4630_init and reports the failure
\* only at the end
init_lora_late(hwOk) ==
    LET first == ~g_lorawan_initialized
        st == g_lorawan_settings
    IN  /\ op' = [name |-> "init_lora", first |-> first, hwOk |-> hwOk]
        /\ RadioEvents' = IF first THEN Handlers ELSE RadioEvents
        /\ bringUps' = IF first /\ hwOk THEN bringUps + 1 ELSE bringUps
        /\ radioInits' = IF first THEN radioInits + 1 ELSE radioInits
        /\ radioChannel' = st.p2p_frequency
        /\ radioTxConfig' = TxConfig(st)
        /\ radioRxConfig' = RxConfig(st)
        /\ timerRunning' = IF st.send_repeat_time # 0 THEN TRUE ELSE timerRunning
        /\ radioMode' = "RX"
        /\ led' = "LOW"
        /\ g_lorawan_initialized' = TRUE
        /\ calls' = (IF first
                     THEN << Call("lora_rak4630_init", <<>>),
                             Call("Radio.Init", <<"RadioEvents">>) >>
                     ELSE <<>>)
                    \o ConfigCalls(st)
        /\ ret' = IF first /\ ~hwOk THEN -1 ELSE 0
        /\ UNCHANGED <<radioCadParams, g_lorawan_settings, txFrame, rxFrame, eventVars,
                       g_task_sem>>

\* int8_t init_lora(void); hwOk is the outcome of lora_rak4630_init() when it is called
init_lora(hwOk) ==
    LET first == ~g_lorawan_initialized
        st == g_lorawan_settings
    IN  /\ op' = [name |-> "init_lora", first |-> first, hwOk |-> hwOk]
        /\ IF first /\ ~hwOk
           THEN /\ ret' = -1
                /\ calls' = <<Call("lora_rak4630_init", <<>>)>>
                /\ UNCHANGED <<initVars, radioVars, led>>
           ELSE /\ RadioEvents' = IF first THEN Handlers ELSE RadioEvents
                /\ bringUps' = IF first THEN bringUps + 1 ELSE bringUps
                /\ radioInits' = IF first THEN radioInits + 1 ELSE radioInits
                /\ radioChannel' = st.p2p_frequency
                /\ radioTxConfig' = TxConfig(st)
                /\ radioRxConfig' = RxConfig(st)
                /\ timerRunning' = IF st.send_repeat_time # 0 THEN TRUE ELSE timerRunning
                /\ radioMode' = "RX"
                /\ led' = "LOW"
                /\ g_lorawan_initialized' = TRUE
                /\ calls' = (IF first
                             THEN << Call("lora_rak4630_init", <<>>),
                                     Call("Radio.Init", <<"RadioEvents">>) >>
                             ELSE <<>>)
                            \o ConfigCalls(st)
                /\ ret' = 0
                /\ UNCHANGED radioCadParams
        /\ UNCHANGED <<g_lorawan_settings, txFrame, rxFrame, eventVars, g_task_sem>>

\* a callback runs only once Radio.Init has been given the table that names it
Registered(cb) == radioInits > 0 /\ RadioEvents[cb] # "NULL"

\* the radio reports the end of a CAD only after StartCad and the end of a
\* transmission only after Send; a received frame, a receive timeout or a receive
\* error may still be reported after the radio was commanded out of receive
Owed(cb) ==
    CASE cb \in {"TxDone", "TxTimeout"} -> radioMode = "TX"
      [] cb = "CadDone" -> radioMode = "CAD"
      [] OTHER -> TRUE

\* on_tx_done writing the flag word with = where the code has |=
on_tx_done_m ==
    /\ Registered("TxDone") /\ Owed("TxDone")
    /\ op' = [name |-> "on_tx_done", pre |-> LinkState]
    /\ g_rx_fin_result' = TRUE
    /\ g_task_event_type' = {"LORA_TX_FIN"}
    /\ semCount' = GiveCount(g_task_sem, semCount)
    /\ radioMode' = "RX"
    /\ calls' = GiveCalls(g_task_sem) \o <<Call("Radio.Rx", <<0>>)>>
    /\ ret' = "void"
    /\ UNCHANGED <<cbFrame, txFrame, rxFrame>>

\* void on_tx_done(void)
on_tx_done ==
    /\ Registered("TxDone") /\ Owed("TxDone")
    /\ op' = [name |-> "on_tx_done", pre |-> LinkState]
    /\ g_rx_fin_result' = TRUE
    /\ g_task_event_type' = g_task_event_type \cup {"LORA_TX_FIN"}
    /\ semCount' = GiveCount(g_task_sem, semCount)
    /\ radioMode' = "RX"
    /\ calls' = GiveCalls(g_task_sem) \o <<Call("Radio.Rx", <<0>>)>>
    /\ ret' = "void"
    /\ UNCHANGED <<cbFrame, txFrame, rxFrame>>

\* on_rx_done that keeps the frame already stored while LORA_DATA is pending and
\* drops the new one
on_rx_done_m(p, size, rssi, snr) ==
    LET keep == "LORA_DATA" \in g_task_event_type
    IN  /\ Registered("RxDone") /\ Owed("RxDone")
        /\ op' = [name |-> "on_rx_done", pre |-> LinkState, p |-> p, size |-> size,
                  rssi |-> rssi, snr |-> snr]
        /\ g_last_rssi' = IF keep THEN g_last_rssi ELSE rssi
        /\ g_last_snr' = IF keep THEN g_last_snr ELSE snr
        /\ g_rx_lora_data' = IF keep THEN g_rx_lora_data
                             ELSE memcpy(g_rx_lora_data, Payload(p, size), size)
        /\ g_rx_data_len' = IF keep THEN g_rx_data_len ELSE size
        /\ g_task_event_type' = g_task_event_type \cup {"LORA_DATA"}
        /\ semCount' = GiveCount(g_task_sem, semCount)
        /\ radioMode' = "RX"
        /\ calls' = GiveCalls(g_task_sem) \o <<Call("Radio.Rx", <<0>>)>>
        /\ ret' = "void"
        /\ UNCHANGED <<cbFrame, txFrame, g_rx_fin_result>>

\* void on_rx_done(uint8_t *payload, uint16_t size, int16_t rssi, int8_t snr), called
\* with a frame of content p and length size
on_rx_done(p, size, rssi, snr) ==
    /\ Registered("RxDone") /\ Owed("RxDone")
    /\ op' = [name |-> "on_rx_done", pre |-> LinkState, p |-> p, size |-> size,
              rssi |-> rssi, snr |-> snr]
    /\ g_last_rssi' = rssi
    /\ g_last_snr' = snr
    /\ g_rx_lora_data' = memcpy(g_rx_lora_data, Payload(p, size), size)
    /\ g_rx_data_len' = size
    /\ g_task_event_type' = g_task_event_type \cup {"LORA_DATA"}
    /\ semCount' = GiveCount(g_task_sem, semCount)
    /\ radioMode' = "RX"
    /\ calls' = GiveCalls(g_task_sem) \o <<Call("Radio.Rx", <<0>>)>>
    /\ ret' = "void"
    /\ UNCHANGED <<cbFrame, txFrame, g_rx_fin_result>>

\* on_tx_timeout reporting success, as on_tx_done does
on_tx_timeout_m ==
    /\ Registered("TxTimeout") /\ Owed("TxTimeout")
    /\ op' = [name |-> "on_tx_timeout", pre |-> LinkState]
    /\ g_rx_fin_result' = TRUE
    /\ g_task_event_type' = g_task_event_type \cup {"LORA_TX_FIN"}
    /\ semCount' = GiveCount(g_task_sem, semCount)
    /\ radioMode' = "RX"
    /\ calls' = GiveCalls(g_task_sem) \o <<Call("Radio.Rx", <<0>>)>>
    /\ ret' = "void"
    /\ UNCHANGED <<cbFrame, txFrame, rxFrame>>

\* void on_tx_timeout(void)
on_tx_timeout ==
    /\ Registered("TxTimeout") /\ Owed("TxTimeout")
    /\ op' = [name |-> "on_tx_timeout", pre |-> LinkState]
    /\ g_rx_fin_result' = FALSE
    /\ g_task_event_type' = g_task_event_type \cup {"LORA_TX_FIN"}
    /\ semCount' = GiveCount(g_task_sem, semCount)
    /\ radioMode' = "RX"
    /\ calls' = GiveCalls(g_task_sem) \o <<Call("Radio.Rx", <<0>>)>>
    /\ ret' = "void"
    /\ UNCHANGED <<cbFrame, txFrame, rxFrame>>

\* on_rx_timeout notifying the task, as on_tx_timeout does
on_rx_timeout_m ==
    /\ Registered("RxTimeout") /\ Owed("RxTimeout")
    /\ op' = [name |-> "on_rx_timeout", pre |-> LinkState]
    /\ g_rx_fin_result' = FALSE
    /\ g_task_event_type' = g_task_event_type \cup {"LORA_TX_FIN"}
    /\ semCount' = GiveCount(g_task_sem, semCount)
    /\ radioMode' = "RX"
    /\ calls' = GiveCalls(g_task_sem) \o <<Call("Radio.Rx", <<0>>)>>
    /\ ret' = "void"
    /\ UNCHANGED <<cbFrame, txFrame, rxFrame>>

\* void on_rx_timeout(void)
on_rx_timeout ==
    /\ Registered("RxTimeout") /\ Owed("RxTimeout")
    /\ op' = [name |-> "on_rx_timeout", pre |-> LinkState]
    /\ radioMode' = "RX"
    /\ calls' = <<Call("Radio.Rx", <<0>>)>>
    /\ ret' = "void"
    /\ UNCHANGED <<cbFrame, txFrame, rxFrame, eventVars>>

\* void on_rx_crc_error(void)
on_rx_crc_error ==
    /\ Registered("RxError") /\ Owed("RxError")
    /\ op' = [name |-> "on_rx_crc_error", pre |-> LinkState]
    /\ radioMode' = "RX"
    /\ calls' = <<Call("Radio.Rx", <<0>>)>>
    /\ ret' = "void"
    /\ UNCHANGED <<cbFrame, txFrame, rxFrame, eventVars>>

\* on_cad_done with the test of cadResult inverted
on_cad_done_m(cadResult) ==
    /\ Registered("CadDone") /\ Owed("CadDone")
    /\ op' = [name |-> "on_cad_done", pre |-> LinkState, cadResult |-> cadResult]
    /\ IF ~cadResult
       THEN /\ radioMode' = "RX"
            /\ calls' = <<Call("Radio.Rx", <<0>>)>>
       ELSE /\ radioMode' = "TX"
            /\ calls' = <<Call("Radio.Send", SendArgs(g_tx_lora_data, g_tx_data_len))>>
    /\ ret' = "void"
    /\ UNCHANGED <<cbFrame, txFrame, rxFrame, eventVars>>

\* void on_cad_done(bool cadResult): cadResult is true when the channel is busy
on_cad_done(cadResult) ==
    /\ Registered("CadDone") /\ Owed("CadDone")
    /\ op' = [name |-> "on_cad_done", pre |-> LinkState, cadResult |-> cadResult]
    /\ IF cadResult
       THEN /\ radioMode' = "RX"
            /\ calls' = <<Call("Radio.Rx", <<0>>)>>
       ELSE /\ radioMode' = "TX"
            /\ calls' = <<Call("Radio.Send", SendArgs(g_tx_lora_data, g_tx_data_len))>>
    /\ ret' = "void"
    /\ UNCHANGED <<cbFrame, txFrame, rxFrame, eventVars>>

\* one step of the program: the application calls init_lora or send_lora_packet, or
\* the radio driver runs one callback; TxIn and RxIn are the payloads sent and the
\* frames received
Step(TxIn, RxIn) ==
    \/ \E hwOk \in BOOLEAN : init_lora(hwOk) /\ UNCHANGED taskVars
    \/ \E in \in TxIn : send_lora_packet(in[1], in[2]) /\ UNCHANGED taskVars
    \/ on_tx_done /\ UNCHANGED taskVars
    \/ \E in \in RxIn : /\ on_rx_done(in[1], in[2], Rssi(in[1]), Snr(in[1]))
                        /\ UNCHANGED taskVars
    \/ on_tx_timeout /\ UNCHANGED taskVars
    \/ on_rx_timeout /\ UNCHANGED taskVars
    \/ on_rx_crc_error /\ UNCHANGED taskVars
    \/ \E cadResult \in BOOLEAN : on_cad_done(cadResult) /\ UNCHANGED taskVars

\* every payload sent, one frame received
Next == Step(Patterns \X TxLens, {<<1, 1>>})
Spec == Init /\ [][Next]_vars

\* every frame received, one payload sent
NextRx == Step({<<1, 1>>}, Patterns \X RxSizes)
SpecRx == Init /\ [][NextRx]_vars

----------------------------------------------------------------------------
(* The handlers that notify the task, statement by statement, and the task *)

Notifying == {"on_tx_done", "on_rx_done", "on_tx_timeout"}

\* the entry of RadioEvents a handler is registered under
EventOf(h) ==
    CASE h = "on_tx_done" -> "TxDone"
      [] h = "on_rx_done" -> "RxDone"
      [] h = "on_tx_timeout" -> "TxTimeout"

\* the bit a handler sets in g_task_event_type
FlagOf(h) == IF h = "on_rx_done" THEN "LORA_DATA" ELSE "LORA_TX_FIN"

\* the statements of a handler with xSemaphoreGive ahead of the write of the flag
HandlerSteps_give_first(h) ==
    IF h = "on_rx_done"
    THEN <<"frame", "give", "flag", "rx">>
    ELSE <<"result", "give", "flag", "rx">>

\* the statements of a handler with the flag written ahead of g_rx_fin_result
HandlerSteps_flag_first(h) ==
    IF h = "on_rx_done"
    THEN <<"frame", "flag", "give", "rx">>
    ELSE <<"flag", "result", "give", "rx">>

\* the statements of a handler in the order of the source: on_tx_done and
\* on_tx_timeout write g_rx_fin_result, or the flag in, give the semaphore, call
\* Radio.Rx(0); on_rx_done stores the frame first
HandlerSteps(h) ==
    IF h = "on_rx_done"
    THEN <<"frame", "flag", "give", "rx">>
    ELSE <<"result", "flag", "give", "rx">>

\* statement s of handler h, called with the frame a, as statement number i
Statement(h, s, a, i) ==
    /\ g_rx_fin_result' = IF s = "result" THEN (h = "on_tx_done") ELSE g_rx_fin_result
    /\ g_task_event_type' = IF s = "flag" THEN g_task_event_type \cup {FlagOf(h)}
                            ELSE g_task_event_type
    /\ semCount' = IF s = "give" THEN GiveCount(g_task_sem, semCount) ELSE semCount
    /\ radioMode' = IF s = "rx" THEN "RX" ELSE radioMode
    /\ IF s = "frame"
       THEN /\ g_last_rssi' = a.rssi
            /\ g_last_snr' = a.snr
            /\ g_rx_lora_data' = memcpy(g_rx_lora_data, Payload(a.p, a.size), a.size)
            /\ g_rx_data_len' = a.size
       ELSE UNCHANGED rxFrame
    /\ calls' = (IF i = 1 THEN <<>> ELSE calls)
                \o (CASE s = "give" -> GiveCalls(g_task_sem)
                      [] s = "rx" -> <<Call("Radio.Rx", <<0>>)>>
                      [] OTHER -> <<>>)
    /\ running' = IF i = Len(HandlerSteps(h)) THEN NoCallback
                  ELSE [name |-> h, step |-> i + 1, args |-> a]
    /\ UNCHANGED <<cbFrame, txFrame>>

\* the radio driver calls handler h with the frame a; the handler runs its first
\* statement.  The driver calls no handler while another one is running.
callback_enter(h, a) ==
    /\ running = NoCallback
    /\ Registered(EventOf(h)) /\ Owed(EventOf(h))
    /\ op' = IF h = "on_rx_done"
             THEN [name |-> h, pre |-> LinkState, p |-> a.p, size |-> a.size,
                   rssi |-> a.rssi, snr |-> a.snr]
             ELSE [name |-> h, pre |-> LinkState]
    /\ ret' = "void"
    /\ lastTxOutcome' = IF h = "on_rx_done" THEN lastTxOutcome ELSE (h = "on_tx_done")
    /\ Statement(h, HandlerSteps(h)[1], a, 1)
    /\ UNCHANGED consumer

\* the running handler runs its next statement
callback_step ==
    /\ running # NoCallback
    /\ Statement(running.name, HandlerSteps(running.name)[running.step], running.args,
                 running.step)
    /\ UNCHANGED <<op, ret, lastTxOutcome, consumer>>

\* the task waits on the semaphore: xSemaphoreTake(g_task_sem, portMAX_DELAY)
task_take ==
    /\ consumer.pc = "wait"
    /\ g_task_sem # "NULL"
    /\ semCount = 1
    /\ semCount' = 0
    /\ consumer' = [consumer EXCEPT !.pc = "read"]
    /\ UNCHANGED <<cbFrame, radioMode, txFrame, rxFrame, g_task_event_type,
                   g_rx_fin_result, op, ret, calls, running, lastTxOutcome>>

\* the task reads the flag word
task_read ==
    /\ consumer.pc = "read"
    /\ consumer' = [pc |-> "clear", flags |-> g_task_event_type]
    /\ UNCHANGED <<cbFrame, radioMode, txFrame, rxFrame, eventVars, op, ret, calls,
                   running, lastTxOutcome>>

\* the task clears the bits it has read and waits again
task_clear ==
    /\ consumer.pc = "clear"
    /\ g_task_event_type' = g_task_event_type \ consumer.flags
    /\ consumer' = [pc |-> "wait", flags |-> {}]
    /\ UNCHANGED <<cbFrame, radioMode, txFrame, rxFrame, g_rx_fin_result, semCount,
                   op, ret, calls, running, lastTxOutcome>>

\* the frame received and the payload sent under SpecTask
TaskFrame == [p |-> 1, size |-> 1, rssi |-> Rssi(1), snr |-> Snr(1)]

\* the application, the radio driver and the task, each at its own pace; the
\* handlers that are a single call run in one step, between two handlers
NextTask ==
    \/ \E hwOk \in BOOLEAN : init_lora(hwOk) /\ UNCHANGED taskVars
    \/ send_lora_packet(1, 1) /\ UNCHANGED taskVars
    \/ \E h \in Notifying : callback_enter(h, TaskFrame)
    \/ callback_step
    \/ running = NoCallback /\ on_rx_timeout /\ UNCHANGED taskVars
    \/ running = NoCallback /\ on_rx_crc_error /\ UNCHANGED taskVars
    \/ \E cadResult \in BOOLEAN :
          running = NoCallback /\ on_cad_done(cadResult) /\ UNCHANGED taskVars
    \/ task_take
    \/ task_read
    \/ task_clear

\* the task exists: g_task_sem has been created
InitTask == Init /\ g_task_sem # "NULL"
SpecTask == InitTask /\ [][NextTask]_vars
----------------------------------------------------------------------------
(* Properties of send_lora_packet *)

IsSend == op.name = "send_lora_packet"
SendFns == <<"Radio.Sleep", "Radio.SetCadParams", "digitalWrite", "Radio.StartCad">>

\* C1: a send_lora_packet call made while LinkState is not Listening returns
\* failure and calls nothing on the radio. The code has no such test.
C1_BusyRejected ==
    (IsSend /\ op.pre # "Listening") => (ret = FALSE /\ calls = <<>>)

\* C2: while a send cycle is in flight (Sensing or Transmitting) no call of
\* send_lora_packet changes g_tx_lora_data or g_tx_data_len.
C2_FrameKeptInFlight ==
    [][ (op'.name = "send_lora_packet" /\ LinkState \in {"Sensing", "Transmitting"})
        => UNCHANGED txFrame ]_vars

\* C3: a send_lora_packet call with a payload longer than the capacity returns
\* failure, copies nothing, keeps the stored length and LinkState, calls nothing
\* on the radio.
C3_TooLargeRejected ==
    [][ (op'.name = "send_lora_packet" /\ op'.n > BufCap)
        => /\ ret' = FALSE
           /\ UNCHANGED txFrame
           /\ LinkState' = LinkState
           /\ calls' = <<>> ]_vars

\* C4: a send_lora_packet call with a payload of at most 256 bytes made in
\* Listening returns true, calls Radio.Sleep, Radio.SetCadParams(8 symbols,
\* sf + 13, 10, CAD only, 0), digitalWrite(LED_BUILTIN, HIGH), Radio.StartCad in
\* this order, and leaves LinkState = Sensing.
C4_AcceptedStartsCad ==
    (IsSend /\ op.n <= BufCap /\ op.pre = "Listening")
    => /\ ret = TRUE
       /\ Fns(calls) = SendFns
       /\ calls[1].args = <<>>
       /\ calls[2].args = <<"LORA_CAD_08_SYMBOL", g_lorawan_settings.p2p_sf + 13, 10,
                            "LORA_CAD_ONLY", 0>>
       /\ calls[3].args = <<"LED_BUILTIN", "HIGH">>
       /\ calls[4].args = <<>>
       /\ led = "HIGH"
       /\ LinkState = "Sensing"

\* a payload of exactly the capacity was accepted in Listening
C4_Witness ==
    IsSend /\ op.pre = "Listening" /\ op.n = BufCap /\ ret = TRUE

\* C5: after an accepted send_lora_packet call with a payload of n <= 256 bytes
\* the stored length is n and the first n bytes of the buffer are the payload.
C5_StoredLengthIsN ==
    (IsSend /\ ret = TRUE /\ op.n <= BufCap)
    => /\ g_tx_data_len = op.n
       /\ Prefix(g_tx_lora_data, op.n) = Payload(op.p, op.n)

----------------------------------------------------------------------------
(* Properties of the callbacks *)

IsTxEnd == op.name \in {"on_tx_done", "on_tx_timeout"}

\* what on_tx_done / on_tx_timeout do apart from the semaphore
TxEndEffect ==
    /\ Count(calls, "Radio.Rx") = 1
    /\ calls[Len(calls)] = Call("Radio.Rx", <<0>>)
    /\ "LORA_TX_FIN" \in g_task_event_type
    /\ g_rx_fin_result = (op.name = "on_tx_done")
    /\ LinkState = "Listening"

\* C6 as stated: on_tx_done and on_tx_timeout re-arm receive, set LORA_TX_FIN,
\* set g_rx_fin_result to true / false, give the semaphore exactly once and
\* leave LinkState = Listening, in every state.
C6_TxEndAlwaysSignals ==
    IsTxEnd => (TxEndEffect /\ Count(calls, "xSemaphoreGive") = 1)

\* C6 amended: as above, but the semaphore is given exactly once when g_task_sem
\* is not NULL and not at all when it is NULL.
C6_TxEnd ==
    IsTxEnd => /\ TxEndEffect
               /\ Count(calls, "xSemaphoreGive") = (IF g_task_sem # "NULL" THEN 1 ELSE 0)
               /\ g_task_sem # "NULL" => semCount = 1

\* a transmission timed out while the radio was transmitting, the task was woken
C6_Witness ==
    /\ op.name = "on_tx_timeout"
    /\ op.pre = "Transmitting"
    /\ g_task_sem # "NULL"
    /\ Count(calls, "xSemaphoreGive") = 1

\* C7: on_cad_done(true) (channel busy) calls Radio.Rx(0) and nothing else, so
\* no transmission starts, leaves LinkState = Listening, and leaves the event
\* flags, g_rx_fin_result and the semaphore as they were.
C7_CadBusy ==
    [][ (op'.name = "on_cad_done" /\ op'.cadResult)
        => /\ calls' = <<Call("Radio.Rx", <<0>>)>>
           /\ LinkState' = "Listening"
           /\ UNCHANGED <<g_task_event_type, g_rx_fin_result, semCount>> ]_vars

\* CAD of an accepted, non-empty payload reported a busy channel
C7_Witness ==
    /\ op.name = "on_cad_done"
    /\ op.cadResult
    /\ op.pre = "Sensing"
    /\ g_tx_data_len > 0
    /\ LinkState = "Listening"

\* C8: on_cad_done(false) (channel clear) calls Radio.Send once, with the bytes
\* and the length stored in g_tx_lora_data / g_tx_data_len, calls nothing else
\* (no Radio.Rx) and leaves LinkState = Transmitting.
C8_CadClear ==
    [][ (op'.name = "on_cad_done" /\ ~op'.cadResult)
        => /\ Fns(calls') = <<"Radio.Send">>
           /\ calls'[1].args[2] = g_tx_data_len
           /\ calls'[1].args[1] = [i \in 0..(g_tx_data_len - 1) |-> g_tx_lora_data[i]]
           /\ UNCHANGED txFrame
           /\ LinkState' = "Transmitting" ]_vars

\* CAD of an accepted, non-empty payload reported a clear channel
C8_Witness ==
    /\ op.name = "on_cad_done"
    /\ ~op.cadResult
    /\ op.pre = "Sensing"
    /\ g_tx_data_len > 0
    /\ LinkState = "Transmitting"

\* what on_rx_done does apart from the semaphore: exactly size bytes copied, the
\* bytes behind them kept, size, rssi and snr recorded, LORA_DATA set, Radio.Rx(0)
RxDoneEffect ==
    /\ g_rx_lora_data' = [i \in 0..(BufCap - 1) |->
                             IF i < op'.size THEN PayloadByte(op'.p, i)
                             ELSE g_rx_lora_data[i]]
    /\ g_rx_data_len' = op'.size
    /\ g_last_rssi' = op'.rssi
    /\ g_last_snr' = op'.snr
    /\ g_task_event_type' = g_task_event_type \cup {"LORA_DATA"}
    /\ Count(calls', "Radio.Rx") = 1
    /\ calls'[Len(calls')] = Call("Radio.Rx", <<0>>)
    /\ radioMode' = "RX"

\* C9 as stated: on_rx_done, in every LinkState, copies exactly size bytes,
\* records size, rssi and snr, sets LORA_DATA, gives the semaphore and re-arms
\* receive.
C9_RxDoneAlwaysSignals ==
    [][ op'.name = "on_rx_done"
        => (RxDoneEffect /\ Count(calls', "xSemaphoreGive") = 1) ]_vars

\* C9 amended: as above, but the semaphore is given (once) only when g_task_sem
\* is not NULL.
C9_RxDone ==
    [][ op'.name = "on_rx_done"
        => /\ RxDoneEffect
           /\ Count(calls', "xSemaphoreGive") = (IF g_task_sem # "NULL" THEN 1 ELSE 0)
           /\ g_task_sem # "NULL" => semCount' = 1 ]_vars

\* a frame of the largest size arrived during a transmission, over an older frame
C9_Witness ==
    /\ op.name = "on_rx_done"
    /\ op.pre = "Transmitting"
    /\ op.size = MaxSmallLen
    /\ g_rx_data_len = MaxSmallLen
    /\ g_task_sem # "NULL"

\* C10: on_rx_timeout and on_rx_crc_error call Radio.Rx(0) and change nothing
\* else: flags, g_rx_fin_result, both frames and the semaphore stay as they were.
C10_RxNoise ==
    [][ op'.name \in {"on_rx_timeout", "on_rx_crc_error"}
        => /\ calls' = <<Call("Radio.Rx", <<0>>)>>
           /\ radioMode' = "RX"
           /\ UNCHANGED <<eventVars, rxFrame, txFrame, cbFrame>> ]_vars

\* a receive timeout arrived with an event flag pending and a payload stored
C10_Witness ==
    /\ op.name = "on_rx_timeout"
    /\ g_task_event_type # {}
    /\ g_tx_data_len > 0
    /\ semCount = 1

----------------------------------------------------------------------------
(* Properties of init_lora *)

InitFns(st) ==
    <<"Radio.Sleep", "Radio.SetChannel", "Radio.SetTxConfig", "Radio.SetRxConfig">>
    \o (IF st.send_repeat_time # 0
        THEN <<"g_task_wakeup_timer.begin", "g_task_wakeup_timer.start">>
        ELSE <<>>)
    \o <<"Radio.Rx", "digitalWrite">>

\* the configuration a successful init_lora leaves on the radio, written out from
\* the settings
Configured(st) ==
    /\ radioChannel = st.p2p_frequency
    /\ radioTxConfig = <<"MODEM_LORA", st.p2p_tx_power, 0, st.p2p_bandwidth, st.p2p_sf,
                         st.p2p_cr, st.p2p_preamble_len, FALSE, TRUE, 0, 0, FALSE, 5000>>
    /\ radioRxConfig = <<"MODEM_LORA", st.p2p_bandwidth, st.p2p_sf, st.p2p_cr, 0,
                         st.p2p_preamble_len, st.p2p_symbol_timeout, FALSE, 0, TRUE, 0, 0,
                         FALSE, TRUE>>
    /\ radioMode = "RX"

\* C11: over any sequence of init_lora calls lora_rak4630_init succeeds and
\* Radio.Init registers the callbacks exactly once, on the first successful call;
\* every later call makes neither call but applies channel, transmit and receive
\* configuration again and calls Radio.Rx(0), so that the radio is configured as
\* after the first call.
C11_InitOnce ==
    [][ (op'.name = "init_lora" /\ ret' = 0)
        => /\ bringUps' = 1 /\ radioInits' = 1 /\ RadioEvents' = Handlers
           /\ Configured(g_lorawan_settings)'
           /\ IF g_lorawan_initialized
              THEN /\ Fns(calls') = InitFns(g_lorawan_settings)
                   /\ UNCHANGED <<bringUps, radioInits, RadioEvents, radioChannel,
                                  radioTxConfig, radioRxConfig>>
              ELSE /\ Fns(calls') = <<"lora_rak4630_init", "Radio.Init">>
                                    \o InitFns(g_lorawan_settings)
                   /\ bringUps = 0 /\ radioInits = 0 ]_vars

\* init_lora ran again after a send had left the radio in CAD or in transmission
C11_Witness ==
    /\ op.name = "init_lora"
    /\ ~op.first
    /\ ret = 0
    /\ radioCadParams # <<>>
    /\ radioMode = "RX"
    /\ bringUps = 1

\* C12: when lora_rak4630_init fails, init_lora returns -1, registers nothing,
\* configures nothing, arms no timer, starts no receive and leaves LinkState
\* Uninitialized; the next call tries lora_rak4630_init again.
C12_InitFailure ==
    [][ /\ (op'.name = "init_lora" /\ op'.first /\ ~op'.hwOk)
           => /\ ret' = -1
              /\ calls' = <<Call("lora_rak4630_init", <<>>)>>
              /\ UNCHANGED <<initVars, radioVars, led, txFrame, rxFrame, eventVars>>
              /\ LinkState' = "Uninitialized"
        /\ (op'.name = "init_lora" /\ LinkState = "Uninitialized")
           => calls'[1] = Call("lora_rak4630_init", <<>>) ]_vars

\* a bring-up failed with nothing registered, configured or started
C12_Witness ==
    /\ op.name = "init_lora"
    /\ ~op.hwOk
    /\ ret = -1
    /\ LinkState = "Uninitialized"
    /\ bringUps = 0

----------------------------------------------------------------------------
(* Properties of the send cycle as a whole *)

InCycle == LinkState \in {"Sensing", "Transmitting"}

RxHandlers == {"on_rx_done", "on_rx_timeout", "on_rx_crc_error"}

\* the radio mode that belongs to a link state
ModeOf(ls) ==
    CASE ls = "Listening" -> "RX"
      [] ls = "Sensing" -> "CAD"
      [] ls = "Transmitting" -> "TX"
      [] OTHER -> "none"

\* C13: once init_lora has succeeded, LED_BUILTIN is HIGH exactly while LinkState is
\* Sensing or Transmitting, so it is LOW again when a send cycle has ended by
\* CAD busy, transmit complete or transmit timeout.
C13_LedIffInCycle ==
    g_lorawan_initialized => (led = "HIGH" <=> InCycle)

\* the transitions of LinkState the send cycle consists of, with the operation
\* that makes each
CycleTransitions ==
    { <<"Uninitialized", "Listening", "init_lora">>,
      <<"Listening", "Sensing", "send_lora_packet">>,
      <<"Sensing", "Listening", "on_cad_done">>,
      <<"Sensing", "Transmitting", "on_cad_done">>,
      <<"Transmitting", "Listening", "on_tx_done">>,
      <<"Transmitting", "Listening", "on_tx_timeout">> }

\* C14: every change of LinkState is Uninitialized -> Listening by init_lora,
\* Listening -> Sensing by send_lora_packet, Sensing -> Listening or
\* Sensing -> Transmitting by on_cad_done, or Transmitting -> Listening by
\* on_tx_done or on_tx_timeout; Uninitialized is never entered again and
\* on_rx_done, on_rx_timeout and on_rx_crc_error never change LinkState.
C14_OnlyCycleTransitions ==
    [][ /\ LinkState' # LinkState
           => <<LinkState, LinkState', op'.name>> \in CycleTransitions
        /\ LinkState # "Uninitialized" => LinkState' # "Uninitialized"
        /\ op'.name \in RxHandlers => LinkState' = LinkState ]_vars

\* C15: while LinkState is Sensing or Transmitting no call of init_lora,
\* send_lora_packet, on_rx_done, on_rx_timeout or on_rx_crc_error calls Radio.Rx
\* or takes the link out of the state the cycle is in: only on_cad_done,
\* on_tx_done and on_tx_timeout move the cycle on.
C15_NoAbort ==
    [][ (InCycle /\ op'.name \in {"init_lora", "send_lora_packet"} \cup RxHandlers)
        => /\ Count(calls', "Radio.Rx") = 0
           /\ Count(calls', "Radio.Sleep") = 0
           /\ LinkState' = LinkState ]_vars

\* C20: the radio mode last commanded is the one that belongs to LinkState; a run
\* of on_rx_done, on_rx_timeout or on_rx_crc_error leaves the radio in the mode of
\* the link state it found, so none of them commands Radio.Rx during a CAD or a
\* transmission.
C20_ModeMatchesLinkState ==
    [][ (g_lorawan_initialized /\ op'.name \in RxHandlers)
        => radioMode' = ModeOf(LinkState) ]_vars

----------------------------------------------------------------------------
(* Properties of the event flags and of the stored receive frame *)

\* C16: init_lora, send_lora_packet and the six callbacks never clear a bit of
\* g_task_event_type: the flags after each are a superset of the flags before,
\* LORA_TX_FIN is added only by on_tx_done and on_tx_timeout, LORA_DATA only by
\* on_rx_done, and init_lora and send_lora_packet leave the flags and
\* g_rx_fin_result as they were.
C16_FlagsOnlyGrow ==
    [][ /\ g_task_event_type \subseteq g_task_event_type'
        /\ ("LORA_TX_FIN" \in g_task_event_type' \ g_task_event_type)
           => op'.name \in {"on_tx_done", "on_tx_timeout"}
        /\ ("LORA_DATA" \in g_task_event_type' \ g_task_event_type)
           => op'.name = "on_rx_done"
        /\ op'.name \in {"init_lora", "send_lora_packet"}
           => UNCHANGED <<g_task_event_type, g_rx_fin_result>> ]_vars

\* a transmission ended with LORA_DATA pending from before: both bits are set
C16_Witness ==
    /\ op.name = "on_tx_done"
    /\ g_task_event_type = {"LORA_TX_FIN", "LORA_DATA"}
    /\ g_rx_fin_result

\* C17: with nothing reading the frame, the stored frame is that of the latest
\* on_rx_done alone: each on_rx_done replaces length, rssi, snr and the bytes up
\* to the length by those of its own frame, a frame arriving with LORA_DATA
\* already set leaves the flags as they are (the bit is set once) and touches
\* nothing else that would tell of the older frame, and no other operation
\* writes the stored frame.
C17_LatestFrameOnly ==
    [][ /\ op'.name = "on_rx_done"
           => /\ g_rx_data_len' = op'.size
              /\ Prefix(g_rx_lora_data', op'.size) = Payload(op'.p, op'.size)
              /\ g_last_rssi' = Rssi(op'.p)
              /\ g_last_snr' = Snr(op'.p)
              /\ "LORA_DATA" \in g_task_event_type
                 => /\ g_task_event_type' = g_task_event_type
                    /\ semCount' <= 1
                    /\ UNCHANGED <<cbFrame, txFrame, g_rx_fin_result>>
        /\ op'.name # "on_rx_done" => UNCHANGED rxFrame ]_vars

\* an empty frame of content 2 arrived over a stored frame of content 1 that was
\* never read
C17_Witness ==
    /\ op.name = "on_rx_done"
    /\ op.p = 2
    /\ op.size = 0
    /\ g_rx_data_len = 0
    /\ g_last_rssi = Rssi(2)
    /\ g_rx_lora_data[0] = PayloadByte(1, 0)
    /\ "LORA_DATA" \in g_task_event_type

----------------------------------------------------------------------------
(* Properties of the hand-over to the task *)

\* position of statement s in a handler
PosOf(h, s) == CHOOSE i \in 1..Len(HandlerSteps(h)) : HandlerSteps(h)[i] = s

\* the running handler has its xSemaphoreGive still ahead
GivePending ==
    /\ running # NoCallback
    /\ running.step <= PosOf(running.name, "give")

\* C18: no wake-up is lost: whenever a bit of g_task_event_type is set and the
\* task is waiting on g_task_sem, the semaphore is given, or the handler that set
\* the bit is about to give it; a handler that has given the semaphore has set
\* its bit before.
C18_NoLostWakeup ==
    /\ (g_task_event_type # {} /\ consumer.pc = "wait")
       => (semCount = 1 \/ GivePending)
    /\ (running # NoCallback /\ running.step > PosOf(running.name, "give"))
       => running.step > PosOf(running.name, "flag")

\* the task took the semaphore, read and cleared LORA_TX_FIN and waits again
\* while on_rx_done has set LORA_DATA and has not yet given the semaphore
C18_Witness ==
    /\ consumer.pc = "wait"
    /\ g_task_event_type = {"LORA_DATA"}
    /\ g_rx_fin_result
    /\ semCount = 0
    /\ GivePending
    /\ running.step = PosOf(running.name, "give")

\* C19: whenever LORA_TX_FIN is set, and so whenever the task finds it set,
\* g_rx_fin_result is the outcome of the transmission that ended last: TRUE after
\* on_tx_done, FALSE after on_tx_timeout.
C19_ResultOfLastTx ==
    "LORA_TX_FIN" \in g_task_event_type => g_rx_fin_result = lastTxOutcome

\* the task has read LORA_TX_FIN of a transmission that timed out, after an
\* earlier one had completed
C19_Witness ==
    /\ consumer.pc = "clear"
    /\ "LORA_TX_FIN" \in consumer.flags
    /\ lastTxOutcome = FALSE
    /\ g_rx_fin_result = FALSE
    /\ op.name = "on_tx_timeout"
====
